---- MODULE Spec2Model ----
(***************************************************************************)
(* kernelstub: Installer (installer.py) and Kernelstub.main                *)
(* (application.py) as a state machine over the EFI System Partition, the  *)
(* firmware boot-variable store and the Installer instance.                 *)
(*                                                                         *)
(* A behaviour is any sequence of runs of main and of direct calls of the  *)
(* Installer's methods on one instance.  Every fallible primitive (a copy, *)
(* a directory creation, a file write, a store command) draws its outcome  *)
(* from the environment.                                                   *)
(***************************************************************************)
EXTENDS Integers, Sequences, FiniteSets, TLC

VARIABLES
    esp,        \* the ESP tree: directories and files
    nvram,      \* the firmware store and the adapter's fields read by setup_stub
    installer,  \* the Installer instance: [constructed, old_kernel]
    args,       \* parameters of the run of main, or of the last direct call
    pc,         \* position in main ("idle" between runs, "api" for direct calls)
    status,     \* how the run or the last call ended: [exc, code]
    log,        \* primitive operations attempted, with the calls that made them
    pre,        \* esp, old_kernel and store as they were when the last method was called
    esp0,       \* esp and store as they were when the run of main started
    runs        \* runs of main started so far

vars == <<esp, nvram, installer, args, pc, status, log, pre, esp0, runs>>

----------------------------------------------------------------------------
(* Bounds of the model *)

\* foreign boot entries (other operating systems) the firmware may hold at the start
MaxForeign == 1
\* runs of main in one behaviour
MaxRuns == 2

----------------------------------------------------------------------------
(* Sample values of the collaborators' fields (opsys, drive) *)

OsName == "Pop_OS"
OsNamePretty == "Pop!_OS"
RootUUID == "UUID"
KernelName == "vmlinuz"
InitrdName == "initrd.img"
\* a string that may hold line breaks is the sequence of the pieces between them
KernelOptions == {<<"quiet splash">>}

\* file contents: 0 is "no such file"; a gzip-compressed image is its raw image + Gz
Gz == 10
KernelImage == 1
InitrdImage == 2
OldKernelImage == 3
OldInitrdImage == 4
CmdlineText == 5
KernelSources == {KernelImage, KernelImage + Gz}

NoText == [exists |-> FALSE, lines |-> <<>>]
Text(ls) == [exists |-> TRUE, lines |-> ls]

----------------------------------------------------------------------------
(* The log of primitive operations *)

\* arg: the destination, directory, method or exception the operation is about;
\* num: the content copied, the index a refresh reported, the order position
\* handed to the store, or the exit status (-1: none).
\* An exception raised is logged as "raise" right after the operation that failed.
Op(name, simulate, arg, num) == [op |-> name, sim |-> simulate, arg |-> arg, num |-> num]
Call(name) == Op("call", FALSE, name, -1)

Logged(m, name, simulate, arg, num) ==
    [m EXCEPT !.log = Append(@, Op(name, simulate, arg, num))]

Raise(m, e) == [Logged(m, "raise", FALSE, e, -1) EXCEPT !.exc = e]
Exit(m, c) == [Logged(m, "exit", FALSE, "", c) EXCEPT !.exc = "SystemExit", !.code = c]
Catch(m) == [m EXCEPT !.exc = "none"]
Raised(m) == m.exc # "none"

RECURSIVE LastCallAt(_, _)
LastCallAt(l, i) ==
    IF i = 0 THEN 0
    ELSE IF l[i].op = "call" THEN i ELSE LastCallAt(l, i - 1)

\* the operations of the method called last, and its name
LastCall(l) ==
    LET i == LastCallAt(l, Len(l)) IN
    IF i = 0 THEN <<>> ELSE SubSeq(l, i + 1, Len(l))
LastCallName(l) ==
    LET i == LastCallAt(l, Len(l)) IN
    IF i = 0 THEN "" ELSE l[i].arg

Positions(l, name, a) == {i \in 1..Len(l) : l[i].op = name /\ l[i].arg = a}
Count(l, name, a) == Cardinality(Positions(l, name, a))
Has(l, name, a) == Positions(l, name, a) # {}
\* the operation at position i failed: an exception follows it
FailedAt(l, i) == i < Len(l) /\ l[i + 1].op = "raise"
Failed(l, name, a) == \E i \in Positions(l, name, a) : FailedAt(l, i)

----------------------------------------------------------------------------
(* Primitives of installer.py *)

\* the directory a destination lives in
ParentOf(dest) ==
    IF dest \in {"kernel", "initrd", "kernel_prev", "initrd_prev"}
    THEN "os_folder" ELSE "linux_dir"

DirExists(e, directory) ==
    IF directory = "os_folder" THEN e.os_folder = "dir" ELSE e[directory]

\* Installer.ensure_dir: os.makedirs(directory, exist_ok=True), failure swallowed.
\* makedirs creates the missing parents too (loader/ for loader/entries), and
\* fails when the path is taken by a regular file.
ensure_dir(m, directory, simulate, ok) ==
    LET m1 == Logged(m, "ensure_dir", simulate, directory, -1) IN
    IF simulate \/ ~ok THEN m1
    ELSE IF directory = "os_folder"
        THEN IF m.esp.os_folder # "file" THEN [m1 EXCEPT !.esp.os_folder = "dir"] ELSE m1
    ELSE IF directory = "entry_dir"
        THEN [m1 EXCEPT !.esp.entry_dir = TRUE, !.esp.loader_dir = TRUE]
    ELSE [m1 EXCEPT !.esp[directory] = TRUE]

\* shutil.copy(src, dest) of a file whose content is src (0: no such file).
\* dest "os_folder" is the generation folder itself: the file lands in it under
\* the source's name, or, when no such directory exists, at that very path.
shutil_copy(e, src, dest) ==
    IF dest = "os_folder"
    THEN IF e.os_folder = "dir" THEN [e EXCEPT !.cmdline = src]
         ELSE [e EXCEPT !.os_folder = "file"]
    ELSE [e EXCEPT ![dest] = src]

CanCopy(e, src, dest) ==
    /\ src # 0
    /\ dest # "os_folder" => DirExists(e, ParentOf(dest))

\* Installer.copy_files: any failure of the copy becomes FileOpsError.
copy_files(m, src, dest, simulate, ok) ==
    LET m1 == Logged(m, "copy_files", simulate, dest, src) IN
    IF simulate THEN m1
    ELSE IF ok /\ CanCopy(m.esp, src, dest)
        THEN [m1 EXCEPT !.esp = shutil_copy(m.esp, src, dest)]
    ELSE Raise(m1, "FileOpsError")

\* Installer.gunzip_files: gzip.open(src) copied to dest; any failure (a source
\* that is not gzip data included) becomes FileOpsError.
gunzip_files(m, src, dest, simulate, ok) ==
    LET m1 == Logged(m, "gunzip_files", simulate, dest, src) IN
    IF simulate THEN m1
    ELSE IF ok /\ src > Gz /\ CanCopy(m.esp, src, dest)
        THEN [m1 EXCEPT !.esp = shutil_copy(m.esp, src - Gz, dest)]
    ELSE Raise(m1, "FileOpsError")

\* open(path, mode='w') then the writes: n = -1 the open fails (file untouched),
\* otherwise the file is truncated and n lines reach it; fewer than all raises.
write_file(m, file, directory, ls, n) ==
    LET m1 == Logged(m, "write", FALSE, file, -1) IN
    IF n = -1 \/ ~DirExists(m.esp, directory) THEN Raise(m1, "OSError")
    ELSE IF n >= Len(ls) THEN [m1 EXCEPT !.esp[file] = Text(ls)]
    ELSE Raise([m1 EXCEPT !.esp[file] = Text(SubSeq(ls, 1, n))], "OSError")

\* 'key %s\n' % val: one line of the file when val holds no line break, and one
\* more line for every line break in it
Line(key, val) == key \o " " \o val
Lines(key, val) == <<Line(key, Head(val))>> \o Tail(val)

\* a make_loader_entry that forgets the options line
make_loader_entry_short(m, title, linux, initrd, options, filename, n) ==
    write_file(m, filename, "entry_dir",
               << Line("title", title), Line("linux", linux),
                  Line("initrd", initrd) >>, n)

\* a make_loader_entry that opens the file for appending
make_loader_entry_append(m, title, linux, initrd, options, filename, n) ==
    LET m1 == Logged(m, "write", FALSE, filename, -1) IN
    IF n = -1 \/ ~DirExists(m.esp, "entry_dir") THEN Raise(m1, "OSError")
    ELSE [m1 EXCEPT !.esp[filename] =
              Text(@.lines \o << Line("title", title), Line("linux", linux),
                                Line("initrd", initrd) >> \o Lines("options", options))]

\* Installer.make_loader_entry
make_loader_entry(m, title, linux, initrd, options, filename, n) ==
    write_file(m, filename, "entry_dir",
               << Line("title", title), Line("linux", linux),
                  Line("initrd", initrd) >> \o Lines("options", options), n)

----------------------------------------------------------------------------
(* Outcomes the environment may hand to a primitive *)

\* under simulate no primitive touches anything, so none can fail
Oks(simulate) == IF simulate THEN {TRUE} ELSE BOOLEAN

EntryLines == 4
\* what open(path, 'w') and the buffered writes leave: -1 the open fails and the
\* file is untouched; 0 the file is truncated and the flush fails; len all is written
WriteOutcomes(len) == {-1, 0, len}

\* platform.machine()
Machines == {"x86_64", "aarch64", "arm64"}

\* what is found at a previous-generation path: the file, or nothing
OldSources(image) == {image, 0}

----------------------------------------------------------------------------
(* Installer: construction *)

\* os.makedirs(path) as called by __init__: a failure propagates
makedirs(m, directory, ok) ==
    LET m1 == Logged(m, "makedirs", FALSE, directory, -1) IN
    IF ~ok THEN Raise(m1, "OSError")
    ELSE IF directory = "entry_dir"
        THEN [m1 EXCEPT !.esp.entry_dir = TRUE, !.esp.loader_dir = TRUE]
    ELSE [m1 EXCEPT !.esp[directory] = TRUE]

\* Installer.__init__: the two directories are created whatever the mode
Installer_init(m) ==
    LET A == IF m.esp.loader_dir THEN {m}
             ELSE {makedirs(m, "loader_dir", ok) : ok \in BOOLEAN}
    IN UNION { IF Raised(a) \/ a.esp.entry_dir THEN {a}
               ELSE {makedirs(a, "entry_dir", ok) : ok \in BOOLEAN} : a \in A }

----------------------------------------------------------------------------
(* Installer.setup_kernel *)

OsDir == "/EFI/" \o OsName \o "-" \o RootUUID \o "/"
linux_line == OsDir \o KernelName \o ".efi"
initrd_line == OsDir \o InitrdName
old_linux_line == OsDir \o KernelName \o "-previous.efi"
old_initrd_line == OsDir \o InitrdName \o "-previous"
Kopts(kernel_opts) ==
    <<"root=UUID=" \o RootUUID \o " ro " \o Head(kernel_opts)>> \o Tail(kernel_opts)

\* a placement that knows aarch64 only
place_kernel_aarch64(m, simulate) ==
    { LET m1 == Logged(m, "platform.machine", FALSE, arch, -1) IN
      IF arch = "aarch64"
      THEN gunzip_files(m1, src, "kernel", simulate, ok)
      ELSE copy_files(m1, src, "kernel", simulate, ok)
      : arch \in Machines, src \in KernelSources, ok \in Oks(simulate) }

\* the current kernel: decompressed on arm64/aarch64, copied elsewhere
place_kernel(m, simulate) ==
    { LET m1 == Logged(m, "platform.machine", FALSE, arch, -1) IN
      IF arch \in {"arm64", "aarch64"}
      THEN gunzip_files(m1, src, "kernel", simulate, ok)
      ELSE copy_files(m1, src, "kernel", simulate, ok)
      : arch \in Machines, src \in KernelSources, ok \in Oks(simulate) }

\* a default pointer rewritten on every call
write_loader_conf_always(m, overwrite, value) ==
    { write_file(ensure_dir(m, "loader_dir", FALSE, ok), "loader_conf",
                 "loader_dir", << Line("default", value) >>, n)
      : ok \in BOOLEAN, n \in WriteOutcomes(1) }

\* the default pointer: rewritten when asked to, or when there is none yet
write_loader_conf(m, overwrite, value) ==
    IF overwrite \/ ~m.esp.loader_conf.exists
    THEN { write_file(ensure_dir(m, "loader_dir", FALSE, ok), "loader_conf",
                      "loader_dir", << Line("default", value) >>, n)
           : ok \in BOOLEAN, n \in WriteOutcomes(1) }
    ELSE {m}

\* the setup_loader branch of setup_kernel
setup_kernel_loader(m, kernel_opts, overwrite, simulate) ==
    IF simulate THEN {m}
    ELSE UNION { IF Raised(a) THEN {a}
                 ELSE { make_loader_entry(ensure_dir(a, "entry_dir", FALSE, ok),
                                          OsNamePretty, linux_line, initrd_line,
                                          kernel_opts, "current_conf", n)
                        : ok \in BOOLEAN, n \in WriteOutcomes(EntryLines) }
                 : a \in write_loader_conf(m, overwrite, OsName \o "-current") }

\* a kernel failure that is logged and dropped, as backup_old drops its own
on_kernel_error_swallowed(m) == Catch(m)

\* except FileOpsError: exit(170), exit(171)
on_kernel_error(m) == Exit(m, 170)
on_initrd_error(m) == Exit(m, 171)

setup_kernel(m, kernel_opts, setup_loader, overwrite, simulate) ==
    LET A == {ensure_dir(m, "os_folder", simulate, ok) : ok \in Oks(simulate)}
        B == UNION {place_kernel(a, simulate) : a \in A}
        Initrd(b) == {copy_files(b, InitrdImage, "initrd", simulate, ok)
                      : ok \in Oks(simulate)}
    IN UNION { IF b.exc = "FileOpsError" THEN {on_kernel_error(b)}
               ELSE UNION { IF c.exc = "FileOpsError" THEN {on_initrd_error(c)}
                            ELSE IF setup_loader
                                THEN setup_kernel_loader(c, kernel_opts, overwrite, simulate)
                            ELSE {c}
                            : c \in Initrd(b) }
               : b \in B }

----------------------------------------------------------------------------
(* Installer.backup_old *)

\* one previous-generation copy: any failure clears old_kernel and is dropped
backup_copy(m, image, dest, simulate) ==
    { LET r == copy_files(m, src, dest, simulate, ok) IN
      IF Raised(r) THEN [Catch(r) EXCEPT !.old_kernel = FALSE] ELSE r
      : src \in OldSources(image), ok \in Oks(simulate) }

\* the previous entry: written when setup_loader is set and old_kernel still holds
backup_entry(m, kernel_opts, setup_loader) ==
    IF setup_loader /\ m.old_kernel
    THEN { make_loader_entry(ensure_dir(m, "entry_dir", FALSE, ok),
                             OsNamePretty, old_linux_line, old_initrd_line,
                             kernel_opts, "oldkern_conf", n)
           : ok \in BOOLEAN, n \in WriteOutcomes(EntryLines) }
    ELSE {m}

\* a backup_old without the comparison of the two resolved paths
backup_old_unchecked(m, kernel_opts, setup_loader, simulate) ==
    UNION { LET m1 == Logged(m, "resolve", FALSE, IF same THEN "same" ELSE "different", -1)
                A == backup_copy(m1, OldKernelImage, "kernel_prev", simulate)
                B == UNION {backup_copy(a, OldInitrdImage, "initrd_prev", simulate)
                            : a \in A}
            IN UNION {backup_entry(b, kernel_opts, setup_loader) : b \in B}
            : same \in BOOLEAN }

backup_old(m, kernel_opts, setup_loader, simulate) ==
    UNION { IF same THEN {Logged(m, "resolve", FALSE, "same", -1)}
            ELSE LET m1 == Logged(m, "resolve", FALSE, "different", -1)
                     A == backup_copy(m1, OldKernelImage, "kernel_prev", simulate)
                     B == UNION {backup_copy(a, OldInitrdImage, "initrd_prev", simulate)
                                 : a \in A}
                 IN UNION {backup_entry(b, kernel_opts, setup_loader) : b \in B}
            : same \in BOOLEAN }

----------------------------------------------------------------------------
(* Installer.copy_cmdline *)

copy_cmdline(m, simulate) ==
    {copy_files(m, CmdlineText, "os_folder", simulate, ok) : ok \in Oks(simulate)}

----------------------------------------------------------------------------
(* The firmware boot-variable store and its adapter (nvram) *)

\* the store is the boot order: a sequence of [num, os], os marking this OS's entries
Entry(num, os) == [num |-> num, os |-> os]

RECURSIVE FindOsEntry(_, _)
FindOsEntry(store, i) ==
    IF i > Len(store) THEN -1
    ELSE IF store[i].os THEN i - 1 ELSE FindOsEntry(store, i + 1)

RECURSIVE Without(_, _)
Without(store, num) ==
    IF store = <<>> THEN <<>>
    ELSE IF Head(store).num = num THEN Without(Tail(store), num)
    ELSE <<Head(store)>> \o Without(Tail(store), num)

FreeNum(store) ==
    CHOOSE n \in 0..Len(store) :
        /\ \A i \in 1..Len(store) : store[i].num # n
        /\ \A k \in 0..(n - 1) : \E i \in 1..Len(store) : store[i].num = k

\* refresh(): the listing, this OS's entry index (-1: none) and its order position
nvram_update(m) ==
    LET idx == FindOsEntry(m.nvram.store, 1)
        m1 == Logged(m, "nvram.update", FALSE, "", idx)
    IN [m1 EXCEPT !.nvram.nvram = m.nvram.store,
                  !.nvram.os_entry_index = idx,
                  !.nvram.order_num = IF idx >= 0 THEN m.nvram.store[idx + 1].num ELSE -1]

\* deleteEntry(orderPosition, simulate): no firmware write under simulate
delete_boot_entry(m, num, simulate, ok) ==
    LET m1 == Logged(m, "nvram.delete_boot_entry", simulate, "", num) IN
    IF simulate THEN m1
    ELSE IF ok THEN [m1 EXCEPT !.nvram.store = Without(@, num)]
    ELSE Raise(m1, "StoreError")

\* addEntry(os, drive, kernelOptions, simulate): the new entry heads the boot order
add_entry(m, kernel_opts, simulate, ok) ==
    LET m1 == Logged(m, "nvram.add_entry", simulate, "", -1) IN
    IF simulate THEN m1
    ELSE IF ok THEN [m1 EXCEPT !.nvram.store = <<Entry(FreeNum(@), TRUE)>> \o @]
    ELSE Raise(m1, "StoreError")

----------------------------------------------------------------------------
(* Installer.setup_stub *)

\* no delete at all: the new entry is added next to the old one
stub_delete_never(m, simulate) == {m}

\* a delete issued whatever the refresh found
stub_delete_unconditional(m, simulate) ==
    {delete_boot_entry(m, m.nvram.order_num, simulate, ok) : ok \in Oks(simulate)}

\* the old entry is deleted when the refresh found one
stub_delete(m, simulate) ==
    IF m.nvram.os_entry_index >= 0
    THEN {delete_boot_entry(m, m.nvram.order_num, simulate, ok) : ok \in Oks(simulate)}
    ELSE {m}

\* an add with no refresh after it
stub_add_norefresh(m, kernel_opts, simulate) ==
    {add_entry(m, kernel_opts, simulate, ok) : ok \in Oks(simulate)}

\* the new entry is added, and the store refreshed for the listing that is logged
stub_add(m, kernel_opts, simulate) ==
    { LET d == add_entry(m, kernel_opts, simulate, ok) IN
      IF Raised(d) THEN d ELSE nvram_update(d)
      : ok \in Oks(simulate) }

\* a setup_stub that stops after the first refresh when simulating
setup_stub_dry(m, kernel_opts, simulate) ==
    UNION { IF Raised(a) THEN {a}
            ELSE IF simulate THEN {nvram_update(a)}
            ELSE UNION { IF Raised(c) THEN {c} ELSE stub_add(c, kernel_opts, simulate)
                         : c \in stub_delete(nvram_update(a), simulate) }
            : a \in copy_cmdline(m, simulate) }

setup_stub(m, kernel_opts, simulate) ==
    UNION { IF Raised(a) THEN {a}
            ELSE UNION { IF Raised(c) THEN {c} ELSE stub_add(c, kernel_opts, simulate)
                         : c \in stub_delete(nvram_update(a), simulate) }
            : a \in copy_cmdline(m, simulate) }

----------------------------------------------------------------------------
(* Installer.setup_unified_kernel *)

Suffix(old) == IF old THEN "previous" ELSE "current"
kernel_efi_name(old) == OsName \o "-" \o Suffix(old) \o "-" \o RootUUID \o ".efi"
\* the published file, under EFI/Linux: the ESP holds it under its name
UkiDest(old) == kernel_efi_name(old)
\* the merged image of a generation, unsigned or signed
UkiImage(old, signed) == 20 + (IF old THEN 2 ELSE 0) + (IF signed THEN 1 ELSE 0)

\* the staging directory and the cmdline file in it (outside the ESP)
unified_stage(m, simulate) ==
    { LET m1 == Logged(m, "ensure_dir", simulate, "tmp_dir", -1)
          m2 == Logged(m1, "write", simulate, "tmp_cmdline", -1)
      IN IF simulate \/ (dir /\ ok) THEN m2 ELSE Raise(m2, "OSError")
      : dir \in Oks(simulate), ok \in Oks(simulate) }

\* subprocess.call(command): the tool's failure is not looked at
check_call_unchecked(m, tool, simulate, ok) ==
    LET m1 == Logged(m, tool, simulate, "", -1) IN
    IF simulate \/ ok THEN m1 ELSE Catch(Raise(m1, "CalledProcessError"))

\* subprocess.check_call(command): a failing tool raises
check_call(m, tool, simulate, ok) ==
    LET m1 == Logged(m, tool, simulate, "", -1) IN
    IF simulate \/ ok THEN m1 ELSE Raise(m1, "CalledProcessError")

\* a build that signs as soon as one of certificate and key is there
unified_build_either(m, simulate) ==
    UNION { IF Raised(a) THEN {[m |-> a, signed |-> FALSE]}
            ELSE UNION { LET b == Logged(Logged(a, "exists", FALSE, "mok.crt",
                                                IF crt THEN 1 ELSE 0),
                                         "exists", FALSE, "mok.key", IF key THEN 1 ELSE 0)
                         IN IF crt \/ key
                            THEN {[m |-> check_call(b, "sbsign", simulate, ok),
                                   signed |-> TRUE] : ok \in Oks(simulate)}
                            ELSE {[m |-> b, signed |-> FALSE]}
                         : crt \in BOOLEAN, key \in BOOLEAN }
            : a \in {check_call(m, "objcopy", simulate, ok) : ok \in Oks(simulate)} }

\* the merge, then the signing when certificate and key are both there;
\* each result carries the artifact to publish in signed
unified_build(m, simulate) ==
    UNION { IF Raised(a) THEN {[m |-> a, signed |-> FALSE]}
            ELSE UNION { LET b == Logged(Logged(a, "exists", FALSE, "mok.crt",
                                                IF crt THEN 1 ELSE 0),
                                         "exists", FALSE, "mok.key", IF key THEN 1 ELSE 0)
                         IN IF crt /\ key
                            THEN {[m |-> check_call(b, "sbsign", simulate, ok),
                                   signed |-> TRUE] : ok \in Oks(simulate)}
                            ELSE {[m |-> b, signed |-> FALSE]}
                         : crt \in BOOLEAN, key \in BOOLEAN }
            : a \in {check_call(m, "objcopy", simulate, ok) : ok \in Oks(simulate)} }

\* publication under EFI/Linux
unified_publish(m, old, signed, simulate) ==
    { copy_files(ensure_dir(m, "linux_dir", simulate, dir), UkiImage(old, signed),
                 UkiDest(old), simulate, ok)
      : dir \in Oks(simulate), ok \in Oks(simulate) }

\* a default pointer policy applied to the previous generation too
unified_loader_conf_any(m, old, overwrite, simulate) ==
    LET ow == IF ~overwrite /\ ~simulate THEN ~m.esp.loader_conf.exists ELSE overwrite
    IN IF ow /\ ~simulate
       THEN write_loader_conf(m, TRUE, kernel_efi_name(old))
       ELSE {m}

\* the default pointer, for the current generation only
unified_loader_conf(m, old, overwrite, simulate) ==
    LET ow == IF ~overwrite /\ ~simulate THEN ~m.esp.loader_conf.exists ELSE overwrite
    IN IF ow /\ ~old /\ ~simulate
       THEN write_loader_conf(m, TRUE, kernel_efi_name(old))
       ELSE {m}

setup_unified_kernel(m, kernel_opts, old, overwrite, simulate) ==
    UNION { IF Raised(a) THEN {a}
            ELSE UNION { IF Raised(b.m) THEN {b.m}
                         ELSE UNION { IF Raised(c) THEN {c}
                                      ELSE unified_loader_conf(c, old, overwrite, simulate)
                                      : c \in unified_publish(b.m, old, b.signed, simulate) }
                         : b \in unified_build(a, simulate) }
            : a \in unified_stage(m, simulate) }

----------------------------------------------------------------------------
(* The state machine *)

Args == [simulate : BOOLEAN, setup_loader : BOOLEAN, overwrite : BOOLEAN,
         manage_mode : BOOLEAN, print_config : BOOLEAN, old : {FALSE},
         kernel_opts : KernelOptions]
NoArgs == [simulate |-> FALSE, setup_loader |-> FALSE, overwrite |-> FALSE,
           manage_mode |-> FALSE, print_config |-> FALSE, old |-> FALSE,
           kernel_opts |-> <<"quiet splash">>]

Running == [exc |-> "none", code |-> -1]
Returned == [exc |-> "none", code |-> 0]
\* the process status a method's outcome ends the run with: the exit code of
\* exit(n), 1 for an exception nobody catches
Ended(m) == [exc |-> m.exc, code |-> IF m.exc = "SystemExit" THEN m.code ELSE 1]

EmptyEsp ==
    [loader_dir |-> FALSE, entry_dir |-> FALSE, os_folder |-> "absent",
     linux_dir |-> FALSE, kernel |-> 0, initrd |-> 0, kernel_prev |-> 0,
     initrd_prev |-> 0, cmdline |-> 0, loader_conf |-> NoText,
     current_conf |-> NoText, oldkern_conf |-> NoText]
    @@ (kernel_efi_name(FALSE) :> 0) @@ (kernel_efi_name(TRUE) :> 0)

\* an ESP another systemd-boot installation set up, its default chosen by the user
ForeignEsp ==
    [EmptyEsp EXCEPT !.loader_dir = TRUE, !.entry_dir = TRUE,
                     !.loader_conf = Text(<< Line("default", "other") >>)]

InitEsps == {EmptyEsp, ForeignEsp}

RECURSIVE Foreign(_)
Foreign(n) == IF n = 0 THEN <<>> ELSE Foreign(n - 1) \o <<Entry(n - 1, FALSE)>>

\* a boot order: n foreign entries, and at most one entry of this OS
Stores(n) ==
    {Foreign(n), Foreign(n) \o <<Entry(n, TRUE)>>, <<Entry(n, TRUE)>> \o Foreign(n)}

FreshNvram(store) ==
    [store |-> store, nvram |-> <<>>, os_entry_index |-> -1, order_num |-> -1]

Snapshot == [esp |-> esp, old_kernel |-> installer.old_kernel, store |-> nvram.store]

\* the machine a method of the instance starts from
M(name) ==
    [esp |-> esp, old_kernel |-> installer.old_kernel, nvram |-> nvram,
     log |-> Append(log, Call(name)), exc |-> "none", code |-> -1]

\* the method's effects on the ESP, the store, the instance and the log
Effects(r) ==
    /\ esp' = r.esp
    /\ nvram' = r.nvram
    /\ installer' = [installer EXCEPT !.old_kernel = r.old_kernel]
    /\ log' = r.log

InitCommon(esps, stores) ==
    /\ esp \in esps
    /\ nvram \in {FreshNvram(s) : s \in stores}
    /\ installer = [constructed |-> FALSE, old_kernel |-> TRUE]
    /\ args = NoArgs
    /\ status = Running
    /\ log = <<>>
    /\ pre = [esp |-> esp, old_kernel |-> TRUE, store |-> nvram.store]
    /\ esp0 = [esp |-> esp, store |-> nvram.store]
    /\ runs = 0

----------------------------------------------------------------------------
(* Kernelstub.main, one action per step *)

\* a machine with no other operating system in its boot order
Init == InitCommon(InitEsps, Stores(0)) /\ pc = "idle"

\* the program is started: a new process, which inherits nothing from the
\* previous one but the ESP and the firmware store
Launch ==
    /\ pc = "idle"
    /\ runs < MaxRuns
    /\ runs' = runs + 1
    /\ pc' = "main"
    /\ esp0' = [esp |-> esp, store |-> nvram.store]
    /\ pre' = [esp |-> esp, old_kernel |-> TRUE, store |-> nvram.store]
    /\ nvram' = FreshNvram(nvram.store)
    /\ installer' = [constructed |-> FALSE, old_kernel |-> TRUE]
    /\ args' = NoArgs
    /\ status' = Running
    /\ log' = <<Call("main")>>
    /\ UNCHANGED esp

\* a check of the sources that looks at the kernel only
check_sources_kernel_only(m, kernel_exists, initrd_exists) ==
    LET m1 == Logged(m, "exists", FALSE, "kernel_path", IF kernel_exists THEN 1 ELSE 0)
        m2 == Logged(m1, "exists", FALSE, "initrd_path", IF initrd_exists THEN 1 ELSE 0)
    IN IF ~kernel_exists THEN Exit(m1, 1) ELSE m2

\* if not os.path.exists(opsys.kernel_path): exit(1), and the same for the initrd
check_sources(m, kernel_exists, initrd_exists) ==
    LET m1 == Logged(m, "exists", FALSE, "kernel_path", IF kernel_exists THEN 1 ELSE 0)
        m2 == Logged(m1, "exists", FALSE, "initrd_path", IF initrd_exists THEN 1 ELSE 0)
    IN IF ~kernel_exists THEN Exit(m1, 1)
       ELSE IF ~initrd_exists THEN Exit(m2, 1)
       ELSE m2

\* main up to the start of the deployment: the arguments, the checks of the
\* current sources, the construction of the collaborators, --print-config
MainBegin ==
    /\ pc = "main"
    /\ UNCHANGED <<esp0, pre, runs>>
    /\ \E a \in Args, kernel_exists \in BOOLEAN, initrd_exists \in BOOLEAN :
        /\ args' = a
        /\ LET c == check_sources([M("main") EXCEPT !.log = log],
                                 kernel_exists, initrd_exists) IN
           IF Raised(c)
           THEN /\ status' = Ended(c)
                /\ pc' = "idle"
                /\ log' = c.log
                /\ UNCHANGED <<esp, nvram, installer>>
           ELSE \E r \in Installer_init([c EXCEPT !.log = Append(@, Call("Installer"))]) :
                /\ esp' = r.esp
                /\ nvram' = r.nvram
                /\ log' = r.log
                /\ installer' = [constructed |-> ~Raised(r), old_kernel |-> TRUE]
                /\ IF Raised(r) THEN status' = Ended(r) /\ pc' = "idle"
                   ELSE IF a.print_config
                       THEN status' = [exc |-> "SystemExit", code |-> 0] /\ pc' = "idle"
                   ELSE status' = Running /\ pc' = "setup_kernel"

\* installer.setup_kernel(kopts, setup_loader, overwrite=force, simulate=no_run)
MainSetupKernel ==
    /\ pc = "setup_kernel"
    /\ pre' = Snapshot
    /\ \E r \in setup_kernel(M("setup_kernel"), Kopts(args.kernel_opts),
                             args.setup_loader, args.overwrite, args.simulate) :
        /\ Effects(r)
        /\ IF Raised(r) THEN status' = Ended(r) /\ pc' = "idle"
           ELSE status' = Running /\ pc' = "backup_old"
    /\ UNCHANGED <<args, esp0, runs>>

\* a call of backup_old outside any try: its exception ends the run
MainBackupOld_uncaught ==
    /\ pc = "backup_old"
    /\ pre' = Snapshot
    /\ \E r \in backup_old(M("backup_old"), Kopts(args.kernel_opts),
                           args.setup_loader, args.simulate) :
        /\ Effects(r)
        /\ IF Raised(r) THEN status' = Ended(r) /\ pc' = "idle"
           ELSE status' = Running /\ pc' = "setup_stub"
    /\ UNCHANGED <<args, esp0, runs>>

\* try: installer.backup_old(...) except Exception: log it
MainBackupOld ==
    /\ pc = "backup_old"
    /\ pre' = Snapshot
    /\ \E r \in backup_old(M("backup_old"), Kopts(args.kernel_opts),
                           args.setup_loader, args.simulate) :
        /\ Effects(IF r.exc = "SystemExit" THEN r ELSE Catch(r))
        /\ IF r.exc = "SystemExit" THEN status' = Ended(r) /\ pc' = "idle"
           ELSE status' = Running /\ pc' = "setup_stub"
    /\ UNCHANGED <<args, esp0, runs>>

\* a main that synchronizes the firmware in manage mode too
MainSetupStub_always ==
    /\ pc = "setup_stub"
    /\ pre' = Snapshot
    /\ \E r \in setup_stub(M("setup_stub"), Kopts(args.kernel_opts), args.simulate) :
        /\ Effects(r)
        /\ IF Raised(r) THEN status' = Ended(r) /\ pc' = "idle"
           ELSE status' = Running /\ pc' = "copy_cmdline"
    /\ UNCHANGED <<args, esp0, runs>>

\* if not manage_mode: installer.setup_stub(kopts, simulate=no_run)
MainSetupStub ==
    /\ pc = "setup_stub"
    /\ pre' = Snapshot
    /\ IF args.manage_mode
       THEN /\ pc' = "copy_cmdline"
            /\ UNCHANGED <<esp, nvram, installer, log, status>>
       ELSE \E r \in setup_stub(M("setup_stub"), Kopts(args.kernel_opts), args.simulate) :
            /\ Effects(r)
            /\ IF Raised(r) THEN status' = Ended(r) /\ pc' = "idle"
               ELSE status' = Running /\ pc' = "copy_cmdline"
    /\ UNCHANGED <<args, esp0, runs>>

\* installer.copy_cmdline(simulate=no_run)
MainCopyCmdline ==
    /\ pc = "copy_cmdline"
    /\ pre' = Snapshot
    /\ \E r \in copy_cmdline(M("copy_cmdline"), args.simulate) :
        /\ Effects(r)
        /\ IF Raised(r) THEN status' = Ended(r) /\ pc' = "idle"
           ELSE status' = Running /\ pc' = "save_config"
    /\ UNCHANGED <<args, esp0, runs>>

\* config.save_config(); return 0
MainSaveConfig ==
    /\ pc = "save_config"
    /\ pc' = "idle"
    /\ status' = Returned
    /\ log' = Append(log, Call("save_config"))
    /\ UNCHANGED <<esp, nvram, installer, args, pre, esp0, runs>>

Next ==
    \/ Launch
    \/ MainBegin
    \/ MainSetupKernel
    \/ MainBackupOld
    \/ MainSetupStub
    \/ MainCopyCmdline
    \/ MainSaveConfig

Spec == Init /\ [][Next]_vars

----------------------------------------------------------------------------
(* Direct calls of the Installer's methods on one instance *)

\* an ESP as a completed run with setup_loader leaves it
DeployedEsp ==
    [EmptyEsp EXCEPT !.loader_dir = TRUE, !.entry_dir = TRUE, !.os_folder = "dir",
                     !.kernel = KernelImage, !.initrd = InitrdImage,
                     !.cmdline = CmdlineText,
                     !.loader_conf = Text(<< Line("default", OsName \o "-current") >>),
                     !.current_conf =
                         Text(<< Line("title", OsNamePretty), Line("linux", linux_line),
                                 Line("initrd", initrd_line) >>
                              \o Lines("options", Kopts(<<"quiet splash">>)))]

InitApi(esps, stores) == InitCommon(esps, stores) /\ pc = "api"

\* the machine a direct call starts from: the log holds the last call only
MApi(name) == [M(name) EXCEPT !.log = <<Call(name)>>]

\* the call's effects; exit(n) ends the process and the instance with it
ApiEffects(a, r) ==
    /\ pre' = Snapshot
    /\ args' = a
    /\ esp' = r.esp
    /\ nvram' = r.nvram
    /\ log' = r.log
    /\ installer' = [constructed |-> r.exc # "SystemExit", old_kernel |-> r.old_kernel]
    /\ status' = IF Raised(r) THEN Ended(r) ELSE Returned
    /\ pc' = "called"
    /\ UNCHANGED <<esp0, runs>>

\* the caller goes on: what the last call did is behind it
ApiReturn ==
    /\ pc = "called"
    /\ pc' = "api"
    /\ pre' = Snapshot
    /\ args' = NoArgs
    /\ status' = Running
    /\ log' = <<>>
    /\ UNCHANGED <<esp, nvram, installer, esp0, runs>>

\* Installer(nvram, opsys, drive): a new instance
ApiInstaller ==
    /\ pc = "api"
    /\ \E r \in Installer_init([MApi("Installer") EXCEPT !.old_kernel = TRUE]) :
        /\ pre' = Snapshot
        /\ args' = NoArgs
        /\ esp' = r.esp
        /\ nvram' = r.nvram
        /\ log' = r.log
        /\ installer' = [constructed |-> ~Raised(r), old_kernel |-> TRUE]
        /\ status' = IF Raised(r) THEN Ended(r) ELSE Returned
        /\ pc' = "called"
        /\ UNCHANGED <<esp0, runs>>

ApiSetupKernel ==
    /\ pc = "api"
    /\ installer.constructed
    /\ \E sl \in BOOLEAN, ow \in BOOLEAN, sim \in BOOLEAN, ko \in KernelOptions :
        \E r \in setup_kernel(MApi("setup_kernel"), Kopts(ko), sl, ow, sim) :
            ApiEffects([NoArgs EXCEPT !.setup_loader = sl, !.overwrite = ow,
                                      !.simulate = sim, !.kernel_opts = ko], r)

ApiSetupUnifiedKernel ==
    /\ pc = "api"
    /\ installer.constructed
    /\ \E old \in BOOLEAN, ow \in BOOLEAN, sim \in BOOLEAN, ko \in KernelOptions :
        \E r \in setup_unified_kernel(MApi("setup_unified_kernel"), Kopts(ko), old, ow, sim) :
            ApiEffects([NoArgs EXCEPT !.old = old, !.overwrite = ow,
                                      !.simulate = sim, !.kernel_opts = ko], r)

ApiBackupOld ==
    /\ pc = "api"
    /\ installer.constructed
    /\ \E sl \in BOOLEAN, sim \in BOOLEAN, ko \in KernelOptions :
        \E r \in backup_old(MApi("backup_old"), Kopts(ko), sl, sim) :
            ApiEffects([NoArgs EXCEPT !.setup_loader = sl, !.simulate = sim,
                                      !.kernel_opts = ko], r)

ApiSetupStub ==
    /\ pc = "api"
    /\ installer.constructed
    /\ \E sim \in BOOLEAN, ko \in KernelOptions :
        \E r \in setup_stub(MApi("setup_stub"), Kopts(ko), sim) :
            ApiEffects([NoArgs EXCEPT !.simulate = sim, !.kernel_opts = ko], r)

ApiCopyCmdline ==
    /\ pc = "api"
    /\ installer.constructed
    /\ \E sim \in BOOLEAN :
        \E r \in copy_cmdline(MApi("copy_cmdline"), sim) :
            ApiEffects([NoArgs EXCEPT !.simulate = sim], r)

\* the previous generation: backup_old, repeated on one instance or on new ones
InitBackup == InitApi(InitEsps \cup {DeployedEsp}, Stores(0))
NextBackup == ApiInstaller \/ ApiBackupOld \/ ApiReturn
SpecBackup == InitBackup /\ [][NextBackup]_vars

\* the current generation and the default pointer
InitLoader == InitApi(InitEsps, Stores(0))
NextLoader == ApiInstaller \/ ApiSetupKernel \/ ApiSetupUnifiedKernel \/ ApiReturn
SpecLoader == InitLoader /\ [][NextLoader]_vars

\* the firmware synchronization, on boot orders that hold foreign entries too
InitStub == InitApi(InitEsps \cup {DeployedEsp}, UNION {Stores(n) : n \in 0..MaxForeign})
NextStub == ApiInstaller \/ ApiSetupStub \/ ApiCopyCmdline \/ ApiReturn
SpecStub == InitStub /\ [][NextStub]_vars

\* make_loader_entry on its own: any title, paths and options, the options with
\* or without a line break in them, over whatever the file held before
EntryTitles == {OsNamePretty, "Other OS"}
EntryOptions == {<<"quiet splash">>, <<"quiet">>, <<"quiet", "splash">>}
EntryFiles == {"current_conf", "oldkern_conf"}

ApiMakeLoaderEntry ==
    /\ pc = "api"
    /\ installer.constructed
    /\ \E title \in EntryTitles, linux \in {linux_line, old_linux_line},
          initrd \in {initrd_line, old_initrd_line}, options \in EntryOptions,
          filename \in EntryFiles :
        \E n \in WriteOutcomes(EntryLines + Len(options) - 1) :
            ApiEffects([title |-> title, linux |-> linux, initrd |-> initrd,
                        options |-> options, filename |-> filename],
                       make_loader_entry(MApi("make_loader_entry"), title, linux,
                                         initrd, options, filename, n))

InitEntry == InitApi(InitEsps \cup {DeployedEsp}, Stores(0))
NextEntry == ApiInstaller \/ ApiMakeLoaderEntry \/ ApiReturn
SpecEntry == InitEntry /\ [][NextEntry]_vars

----------------------------------------------------------------------------
(* Properties *)

\* a direct call of the method has just ended
Called(name) == pc = "called" /\ LastCallName(log) = name

ToolOps == {"objcopy", "sbsign"}

\* C1: with simulate active a run of main leaves the whole ESP tree (loader/,
\* loader/entries/ and <os>-oldkern.conf included) and the firmware store as
\* they were when it started, and runs no external tool.
C1_SimulateTouchesNothing ==
    args.simulate =>
        /\ esp = esp0.esp
        /\ nvram.store = esp0.store
        /\ \A i \in 1..Len(log) : log[i].op \in ToolOps => log[i].sim

Deletes(l) == Positions(l, "nvram.delete_boot_entry", "")
Adds(l) == Positions(l, "nvram.add_entry", "")

\* what C2 says of the deletes of an invocation: at most one, issued only right
\* after a refresh that reported an entry index >= 0, and before any add
DeleteDiscipline(l) ==
    /\ Cardinality(Deletes(l)) <= 1
    /\ \A i \in Deletes(l) :
        /\ i > 1
        /\ l[i - 1].op = "nvram.update"
        /\ l[i - 1].num >= 0
        /\ \A j \in Adds(l) : i < j

\* C2 as stated: every invocation of setup_stub issues at most one delete and
\* exactly one add; the delete only if the refresh found an entry index, and
\* before the add.
C2_ExactlyOneAdd ==
    Called("setup_stub") =>
        DeleteDiscipline(log) /\ Cardinality(Adds(log)) = 1

\* C2 amended: every invocation issues at most one delete and at most one add,
\* exactly one add when it returns; the delete only if the refresh found an
\* entry index, and before the add.
C2_OneAddWhenReturned ==
    Called("setup_stub") =>
        /\ DeleteDiscipline(log)
        /\ Cardinality(Adds(log)) <= 1
        /\ status = Returned => Cardinality(Adds(log)) = 1

C2_Witness ==
    /\ Called("setup_stub")
    /\ status = Returned
    /\ ~args.simulate
    /\ Deletes(log) # {}
    /\ Adds(log) # {}

OsEntries(store) == Cardinality({i \in 1..Len(store) : store[i].os})

\* C3: when setup_stub ends, whatever the store's delete and add did, the store
\* is unchanged or has the new entry in place of the stale one: never the stale
\* entry gone and no new one.
C3_NeverHalfModified ==
    Called("setup_stub") =>
        \/ nvram.store = pre.store
        \/ OsEntries(nvram.store) >= 1 /\ OsEntries(nvram.store) >= OsEntries(pre.store)

KernelFailed ==
    Failed(log, "copy_files", "kernel") \/ Failed(log, "gunzip_files", "kernel")
InitrdFailed == Failed(log, "copy_files", "initrd")

\* the run ended with exit(c) as the last thing it did
ExitedAtOnce(c) ==
    /\ pc = "idle"
    /\ status = [exc |-> "SystemExit", code |-> c]
    /\ Len(log) >= 3
    /\ log[Len(log)].op = "exit"
    /\ log[Len(log) - 1].op = "raise"
    /\ log[Len(log) - 2].op \in {"copy_files", "gunzip_files"}

\* C4: in a run that is not simulated, a failed placement of the current kernel
\* ends the process with status 170 and a failed copy of the current initrd with
\* status 171, at once: nothing is attempted after the failure (on the kernel
\* failure the initrd copy included).
C4_FatalDeployment ==
    ~args.simulate =>
        /\ KernelFailed =>
            /\ ExitedAtOnce(170)
            /\ log[Len(log) - 2].arg = "kernel"
            /\ ~Has(log, "copy_files", "initrd")
        /\ InitrdFailed =>
            /\ ExitedAtOnce(171)
            /\ log[Len(log) - 2].arg = "initrd"
        /\ (KernelFailed \/ InitrdFailed) =>
            /\ ~Has(log, "write", "loader_conf")
            /\ ~Has(log, "write", "current_conf")
            /\ ~Has(log, "call", "backup_old")
            /\ ~Has(log, "call", "setup_stub")
            /\ Deletes(log) = {} /\ Adds(log) = {}

C4_Witness ==
    /\ InitrdFailed
    /\ ~args.simulate
    /\ status.code = 171
    /\ esp.kernel # 0

CmdlineFailed == Failed(log, "copy_files", "os_folder")

\* C5: a failure of copy_cmdline, in setup_stub or in main, never aborts the
\* run: the steps after it still execute and main returns.
C5_CmdlineFailureSwallowed ==
    CmdlineFailed => status.exc = "none"

\* C6: setup_kernel and setup_unified_kernel write loader/loader.conf only when
\* overwrite is set or the file does not exist; with overwrite unset and the
\* file there, its content after the call is its content before.
C6_LoaderConfPolicy ==
    (Called("setup_kernel") \/ Called("setup_unified_kernel")) =>
        /\ Has(log, "write", "loader_conf") =>
               (args.overwrite \/ ~pre.esp.loader_conf.exists)
        /\ (~args.overwrite /\ pre.esp.loader_conf.exists) =>
               esp.loader_conf = pre.esp.loader_conf

C6_Witness ==
    /\ Called("setup_kernel")
    /\ args.setup_loader /\ ~args.simulate /\ ~args.overwrite
    /\ pre.esp.loader_conf = Text(<< Line("default", "other") >>)
    /\ status = Returned
    /\ esp.current_conf.exists

\* C7: with current and previous kernel paths resolving differently, a failure
\* of either previous-generation copy, or of the write of the previous entry,
\* never aborts the run: both copies are attempted, and main goes on to the
\* firmware synchronization step.
C7_BackupNeverAborts ==
    [][pc = "backup_old" =>
        /\ pc' = "setup_stub"
        /\ status' = Running
        /\ Has(LastCall(log'), "resolve", "different") =>
            /\ Count(LastCall(log'), "copy_files", "kernel_prev") = 1
            /\ Count(LastCall(log'), "copy_files", "initrd_prev") = 1]_vars

C7_Witness ==
    /\ pc = "setup_stub"
    /\ ~args.simulate
    /\ Failed(log, "copy_files", "kernel_prev")
    /\ Has(log, "copy_files", "initrd_prev")
    /\ ~Failed(log, "copy_files", "initrd_prev")

\* C8: in every call of backup_old with the two paths resolving differently, a
\* second call on the same instance included, <os>-oldkern.conf is written if
\* and only if setup_loader is set and both copies of that call succeeded.
C8_EntryIffBothCopies ==
    (Called("backup_old") /\ Has(log, "resolve", "different")) =>
        (Has(log, "write", "oldkern_conf") <=>
            /\ args.setup_loader
            /\ ~Failed(log, "copy_files", "kernel_prev")
            /\ ~Failed(log, "copy_files", "initrd_prev"))

\* C9: when the two kernel paths resolve to the same path backup_old returns
\* success having attempted no copy and written no entry: the ESP and the
\* old_kernel flag are as they were, whatever setup_loader and simulate.
C9_SamePathNoOp ==
    (Called("backup_old") /\ Has(log, "resolve", "same")) =>
        /\ status = Returned
        /\ log = <<Call("backup_old"), Op("resolve", FALSE, "same", -1)>>
        /\ esp = pre.esp
        /\ installer.old_kernel = pre.old_kernel
        /\ nvram.store = pre.store

C9_Witness ==
    /\ Called("backup_old")
    /\ Has(log, "resolve", "same")
    /\ args.setup_loader /\ ~args.simulate
    /\ ~installer.old_kernel

\* a run that is not simulated, with setup_loader, got past backup_old on a
\* single-kernel system
SingleKernelRun ==
    /\ ~args.simulate
    /\ args.setup_loader
    /\ Has(log, "resolve", "same")

\* C10 as stated: after such a run <os>-current.conf exists with 4 lines and
\* <os>-oldkern.conf does not exist, whatever earlier runs left on the ESP.
C10_NoOldEntry ==
    SingleKernelRun =>
        /\ esp.current_conf.exists
        /\ Len(esp.current_conf.lines) = 4
        /\ ~esp.oldkern_conf.exists

\* C10 amended: after such a run <os>-current.conf exists with 4 lines and
\* <os>-oldkern.conf is as the run found it: absent if it was absent, left in
\* place if an earlier run wrote it.
C10_OldEntryUntouched ==
    SingleKernelRun =>
        /\ esp.current_conf.exists
        /\ Len(esp.current_conf.lines) = 4
        /\ esp.oldkern_conf = esp0.esp.oldkern_conf

C10_Witness ==
    /\ SingleKernelRun
    /\ pc = "idle"
    /\ status = Returned
    /\ esp0.esp.oldkern_conf.exists
    /\ esp.oldkern_conf.exists

\* the entry file holds the four lines of the call, in order, and nothing else
FourLines(file, title, linux, initrd, options) ==
    /\ file.exists
    /\ Len(file.lines) = 4
    /\ file.lines[1] = "title " \o title
    /\ file.lines[2] = "linux " \o linux
    /\ file.lines[3] = "initrd " \o initrd
    /\ file.lines[4] = "options " \o Head(options)

Found(l, file) == \E i \in Positions(l, "exists", file) : l[i].num = 1
Signs(l) == Has(l, "sbsign", "")
PublishedName(old) ==
    OsName \o "-" \o (IF old THEN "previous" ELSE "current") \o "-" \o RootUUID \o ".efi"

\* C12: setup_unified_kernel takes the signing step if and only if certificate
\* and key are both found (under simulate the step is the logged command, else
\* the tool is run); what it copies to EFI/Linux is the signed image when it
\* signed and the unsigned merged image otherwise, under the name
\* <osName>-<current|previous>-<rootUUID>.efi.
C12_SignsIffBoth ==
    Called("setup_unified_kernel") =>
        /\ Signs(log) <=> (Found(log, "mok.crt") /\ Found(log, "mok.key"))
        /\ \A i \in 1..Len(log) :
            /\ log[i].op = "sbsign" => log[i].sim = args.simulate
            /\ log[i].op = "copy_files" =>
                /\ log[i].arg = PublishedName(args.old)
                /\ log[i].num = UkiImage(args.old, Signs(log))
        /\ (status = Returned /\ ~args.simulate) =>
            esp[PublishedName(args.old)] = UkiImage(args.old, Signs(log))

C12_Witness ==
    /\ Called("setup_unified_kernel")
    /\ status = Returned
    /\ ~args.simulate /\ args.old
    /\ Signs(log)
    /\ esp["Pop_OS-previous-UUID.efi"] = UkiImage(TRUE, TRUE)
    /\ esp["Pop_OS-current-UUID.efi"] = UkiImage(FALSE, FALSE)

\* the tool ran before position i of the log and did not fail
DoneBefore(l, tool, i) == \E j \in Positions(l, tool, "") : j < i /\ ~FailedAt(l, j)

\* C13: setup_unified_kernel copies an artifact to EFI/Linux only after the
\* merge succeeded and, when certificate and key both exist, only after the
\* signing succeeded; when either tool fails the ESP (the file published before
\* and loader.conf included) is as it was before the call.
C13_NoPartialPublication ==
    Called("setup_unified_kernel") =>
        /\ \A i \in 1..Len(log) : log[i].op = "copy_files" =>
            /\ DoneBefore(log, "objcopy", i)
            /\ (Found(log, "mok.crt") /\ Found(log, "mok.key")) =>
                   DoneBefore(log, "sbsign", i)
        /\ (Failed(log, "objcopy", "") \/ Failed(log, "sbsign", "")) =>
            /\ status.exc = "CalledProcessError"
            /\ esp = pre.esp

C13_Witness ==
    /\ Called("setup_unified_kernel")
    /\ Failed(log, "sbsign", "")
    /\ ~args.old
    /\ esp[PublishedName(FALSE)] = UkiImage(FALSE, FALSE)
    /\ esp.loader_conf.exists

\* the placement of the current kernel in the log: its position, the machine
\* architecture read just before it, and the source it was given
KernelPlaced(l) ==
    {i \in 2..Len(l) : l[i].op \in {"copy_files", "gunzip_files"} /\ l[i].arg = "kernel"}
Arm == {"arm64", "aarch64"}

\* C14: after a successful setup_kernel that is not simulated the deployed
\* kernel equals its source on a machine that is neither arm64 nor aarch64 and
\* the decompression of its source on arm64 and aarch64; the deployed initrd
\* equals its source on every machine.
C14_DeployedEqualsSource ==
    (Called("setup_kernel") /\ status = Returned /\ ~args.simulate) =>
        /\ KernelPlaced(log) # {}
        /\ \A i \in KernelPlaced(log) :
            /\ log[i - 1].op = "platform.machine"
            /\ log[i - 1].arg \notin Arm => esp.kernel = log[i].num
            /\ log[i - 1].arg \in Arm =>
                   (log[i].num > Gz /\ esp.kernel = log[i].num - Gz)
        /\ \A i \in Positions(log, "copy_files", "initrd") : esp.initrd = log[i].num
        /\ Count(log, "copy_files", "initrd") = 1

C14_Witness ==
    /\ Called("setup_kernel")
    /\ status = Returned
    /\ ~args.simulate
    /\ \E i \in KernelPlaced(log) :
        log[i - 1].arg = "arm64" /\ log[i].num = KernelImage + Gz
    /\ esp.kernel = KernelImage
    /\ esp.initrd = InitrdImage

\* the calls made to the store, in order: which call, with which simulate flag
\* and, for a delete, which order position (what a refresh reports is a result,
\* not part of the call)
IsStoreCall(o) == o.op \in {"nvram.update", "nvram.delete_boot_entry", "nvram.add_entry"}
StoreCalls(l) ==
    LET q == SelectSeq(l, IsStoreCall) IN
    [i \in 1..Len(q) |->
        [op |-> q[i].op, sim |-> q[i].sim,
         num |-> IF q[i].op = "nvram.delete_boot_entry" THEN q[i].num ELSE -1]]
\* the same calls with the simulate flag of delete and add set
Simulated(q) ==
    [i \in 1..Len(q) |->
        [q[i] EXCEPT !.sim = (q[i].op # "nvram.update")]]
\* setup_stub, not simulated, from the state the last call started from
RealStub ==
    setup_stub([esp |-> pre.esp, old_kernel |-> pre.old_kernel,
                nvram |-> FreshNvram(pre.store), log |-> <<Call("setup_stub")>>,
                exc |-> "none", code |-> -1],
               Kopts(args.kernel_opts), FALSE)

\* C15: a simulated setup_stub makes the calls to the store that a real one that
\* goes through makes from the same store: refresh, delete if an entry index
\* was found, add, refresh; the one difference is the simulate flag handed to
\* delete_boot_entry and add_entry, and the store is left as it was.
C15_SimulatedProtocol ==
    (Called("setup_stub") /\ args.simulate) =>
        /\ status = Returned
        /\ nvram.store = pre.store
        /\ Len(StoreCalls(log)) = (IF FindOsEntry(pre.store, 1) >= 0 THEN 4 ELSE 3)
        /\ \E r \in RealStub : ~Raised(r)
        /\ \A r \in RealStub : ~Raised(r) => StoreCalls(log) = Simulated(StoreCalls(r.log))

C15_Witness ==
    /\ Called("setup_stub")
    /\ args.simulate
    /\ Len(pre.store) = 2
    /\ FindOsEntry(pre.store, 1) = 1
    /\ Len(StoreCalls(log)) = 4
    /\ StoreCalls(log)[2] = [op |-> "nvram.delete_boot_entry", sim |-> TRUE, num |-> 1]

\* an operation on a destination, or a call, was made before position i and did
\* not fail
OkBefore(l, name, a, i) == \E j \in Positions(l, name, a) : j < i /\ ~FailedAt(l, j)

\* C16: in a run of main the store's delete and add are issued only with manage
\* mode off, after the current kernel and the current initrd were both placed
\* without failure and after backup_old has ended (the calls come in the order
\* setup_kernel, backup_old, setup_stub); with manage mode on neither is issued.
C16_StepOrder ==
    /\ \A i \in Deletes(log) \cup Adds(log) :
        /\ ~args.manage_mode
        /\ \E k \in KernelPlaced(log) : k < i /\ ~FailedAt(log, k)
        /\ OkBefore(log, "copy_files", "initrd", i)
        /\ \E a \in Positions(log, "call", "setup_kernel"),
              b \in Positions(log, "call", "backup_old"),
              c \in Positions(log, "call", "setup_stub") :
            a < b /\ b < c /\ c < i
    /\ args.manage_mode => ~Has(log, "call", "setup_stub")

C16_Witness ==
    /\ pc = "idle"
    /\ status = Returned
    /\ ~args.manage_mode /\ ~args.simulate
    /\ Deletes(log) # {} /\ Adds(log) # {}
    /\ Has(log, "copy_files", "kernel_prev")
    /\ runs = 2

\* backup_old, not simulated, from the state the last call started from
RealBackup ==
    backup_old([esp |-> pre.esp, old_kernel |-> pre.old_kernel,
                nvram |-> FreshNvram(pre.store), log |-> <<Call("backup_old")>>,
                exc |-> "none", code |-> -1],
               Kopts(args.kernel_opts), args.setup_loader, FALSE)
\* two calls found the same files at the previous-generation paths
SameSources(l1, l2) ==
    /\ Has(l1, "resolve", "different") <=> Has(l2, "resolve", "different")
    /\ \A d \in {"kernel_prev", "initrd_prev"} :
        \A i \in Positions(l1, "copy_files", d), j \in Positions(l2, "copy_files", d) :
            l1[i].num = l2[j].num
EmitsOldEntry(l) == Has(l, "write", "oldkern_conf")

\* C17: a simulated backup_old decides to emit the previous loader entry if and
\* only if the real backup_old does, from the same ESP, instance and inputs,
\* the previous kernel and initrd files being the same (present or not) in both.
C17_SameDecision ==
    (Called("backup_old") /\ args.simulate) =>
        \A r \in RealBackup :
            SameSources(log, r.log) => (EmitsOldEntry(log) <=> EmitsOldEntry(r.log))

\* the order position of this OS's entry in a store
OrderNum(store) == store[FindOsEntry(store, 1) + 1].num

\* C18: a setup_stub that returns has refreshed the store exactly twice, before
\* any delete or add and after the add; the order position handed to
\* delete_boot_entry is the one the store had at the first refresh, and the
\* listing it logs at the end is the store as the writes left it.
C18_TwoRefreshes ==
    (Called("setup_stub") /\ status = Returned) =>
        /\ Count(log, "nvram.update", "") = 2
        /\ \E u1, u2 \in Positions(log, "nvram.update", "") :
            /\ u1 < u2
            /\ log[u1].num = FindOsEntry(pre.store, 1)
            /\ log[u2].num = FindOsEntry(nvram.store, 1)
            /\ \A i \in Deletes(log) \cup Adds(log) : u1 < i /\ i < u2
            /\ \E a \in Adds(log) : u2 = a + 1
        /\ \A i \in Deletes(log) : log[i].num = OrderNum(pre.store)
        /\ nvram.nvram = nvram.store

C18_Witness ==
    /\ Called("setup_stub")
    /\ status = Returned
    /\ ~args.simulate
    /\ Len(pre.store) = 2
    /\ \E i \in Deletes(log) : log[i].num = 1
    /\ nvram.nvram # pre.store
    /\ nvram.nvram = nvram.store

\* C19: in one run of main nothing is attempted twice: the placement of the
\* current kernel, the copy of the current initrd, each previous-generation
\* copy, the copy of the live command line, the store's delete and its add are
\* each attempted at most once, in manage mode or not.
C19_NothingTwice ==
    /\ Cardinality(KernelPlaced(log)) <= 1
    /\ Count(log, "copy_files", "initrd") <= 1
    /\ Count(log, "copy_files", "kernel_prev") <= 1
    /\ Count(log, "copy_files", "initrd_prev") <= 1
    /\ Count(log, "copy_files", "os_folder") <= 1
    /\ Cardinality(Deletes(log)) <= 1
    /\ Cardinality(Adds(log)) <= 1

\* the publication of the unified image went through
Published(l) ==
    \E i \in 1..Len(l) : l[i].op = "copy_files" /\ l[i].arg \notin {"os_folder"}
                         /\ ~FailedAt(l, i)

\* C20: setup_unified_kernel with old set never writes loader/loader.conf, which
\* stays as it was, whatever overwrite is and whether or not the file exists;
\* with old unset, not simulated, once the image is published, it writes the
\* file exactly when overwrite is set or the file is absent, and what it writes
\* is the one line 'default <published file name>'.
C20_PointerForCurrentOnly ==
    Called("setup_unified_kernel") =>
        /\ (args.old \/ args.simulate) =>
            /\ ~Has(log, "write", "loader_conf")
            /\ esp.loader_conf = pre.esp.loader_conf
        /\ (~args.old /\ ~args.simulate /\ Published(log)) =>
            (Has(log, "write", "loader_conf") <=>
                (args.overwrite \/ ~pre.esp.loader_conf.exists))
        /\ Has(log, "write", "loader_conf") =>
            /\ Published(log)
            /\ status = Returned =>
                esp.loader_conf = Text(<<"default " \o PublishedName(FALSE)>>)

C20_Witness ==
    /\ Called("setup_unified_kernel")
    /\ status = Returned
    /\ ~args.old /\ ~args.simulate /\ ~args.overwrite
    /\ ~pre.esp.loader_conf.exists
    /\ esp.loader_conf = Text(<<"default Pop_OS-current-UUID.efi">>)
    /\ esp["Pop_OS-previous-UUID.efi"] # 0

\* main found a source of the current generation missing, or backup_old found
\* a file of the previous generation missing
Missing(l, files) ==
    \E i \in 1..Len(l) : l[i].arg \in files /\ l[i].num = 0
                         /\ l[i].op \in {"exists", "copy_files"}

\* C21: when the current kernel source or the current initrd source does not
\* exist, main exits with a non-zero status before the Installer is built:
\* nothing on the ESP is created or modified and nothing is asked of the
\* firmware store. A missing file of the previous generation does not end the
\* run: a run that found one missing and failed, failed in a later step.
C21_MissingSources ==
    /\ Missing(log, {"kernel_path", "initrd_path"}) =>
        /\ pc = "idle"
        /\ status.exc = "SystemExit" /\ status.code > 0
        /\ log[Len(log)].op = "exit"
        /\ ~installer.constructed
        /\ \A i \in 1..Len(log) : log[i].op \in {"call", "exists", "exit"}
        /\ ~Has(log, "call", "Installer")
        /\ esp = esp0.esp
        /\ nvram.store = esp0.store
    /\ Missing(log, {"kernel_prev", "initrd_prev"}) =>
        /\ pc # "backup_old"
        /\ status.exc # "none" =>
            (Has(log, "call", "setup_stub") \/ Has(log, "call", "copy_cmdline"))

C21_Witness ==
    /\ Found(log, "kernel_path")
    /\ Missing(log, {"initrd_path"})
    /\ status = [exc |-> "SystemExit", code |-> 1]
    /\ ~esp.loader_dir
    /\ runs = 1

\* C22: from a store with at most one entry of this OS, the store never holds
\* two, and after every setup_stub that is not simulated and returns it holds
\* exactly one: the entry the refresh found was removed before the new one
\* was added.
C22_OneOsEntry ==
    /\ OsEntries(nvram.store) <= 1
    /\ (Called("setup_stub") /\ status = Returned /\ ~args.simulate) =>
        /\ OsEntries(nvram.store) = 1
        /\ nvram.store[1].os
        /\ OsEntries(pre.store) = 1 => Len(nvram.store) = Len(pre.store)

C22_Witness ==
    /\ Called("setup_stub")
    /\ status = Returned
    /\ ~args.simulate
    /\ Len(pre.store) = 2
    /\ pre.store[2].os
    /\ Len(nvram.store) = 2
    /\ nvram.store[1].os /\ ~nvram.store[2].os

\* the file of the generation folder a path of a loader entry names (0: none)
FileAt(e, path) ==
    IF path = linux_line THEN e.kernel
    ELSE IF path = initrd_line THEN e.initrd
    ELSE IF path = old_linux_line THEN e.kernel_prev
    ELSE IF path = old_initrd_line THEN e.initrd_prev
    ELSE 0
EntryPaths == {linux_line, initrd_line, old_linux_line, old_initrd_line}
\* the entry file, if it is there with its lines, names two files that exist
Resolves(e, conf) ==
    (e[conf].exists /\ Len(e[conf].lines) >= 3) =>
        /\ \E p \in EntryPaths : e[conf].lines[2] = "linux " \o p /\ FileAt(e, p) # 0
        /\ \E p \in EntryPaths : e[conf].lines[3] = "initrd " \o p /\ FileAt(e, p) # 0

\* C23: from an ESP without entry files, after any runs of main (simulated or
\* not, with or without setup_loader and overwrite, one or two kernel
\* generations, copies failing or not), each of <os>-current.conf and
\* <os>-oldkern.conf that exists names a linux path and an initrd path whose
\* files exist in the generation folder.
C23_EntriesResolve ==
    Resolves(esp, "current_conf") /\ Resolves(esp, "oldkern_conf")

====
